---------------------------- MODULE Spec2Model ----------------------------
(***************************************************************************)
(* Model of the EZKL pipeline driver, src/ezkl/script/run_ezkl.py (main).  *)
(*                                                                         *)
(* The driver changes into the working directory, checks that the ezkl     *)
(* tool answers `ezkl --help`, runs the seven core stages in order and,    *)
(* with --generate-contract, two more stages.  The first stage that        *)
(* returns a nonzero status ends the process with status 1.                *)
(*                                                                         *)
(* The external tool is the environment: every invocation returns a        *)
(* status drawn from ExitStatuses, or the launch itself raises.            *)
(***************************************************************************)
EXTENDS Integers, Sequences, FiniteSets, TLC

(* ----------------------------- bounds ---------------------------------- *)

\* Largest exit status the stub tool returns (the real range is 0..255).
MaxStatus == 2

\* Largest signal number that kills the tool; subprocess reports -N.
MaxSignal == 1

\* Return codes subprocess.run can hand back for a stage.
ExitStatuses == (0 - MaxSignal)..MaxStatus

\* Values of --model-path and --srs-path the runs are started with.
ModelPaths == {"credit_model.onnx", "out/network.onnx"}
SrsPaths == {"kzg.srs", "srs/kzg15.srs"}

\* The directory the process is started in and the values of --working-dir.
LaunchDir == "/launch"
WorkingDirs == {"/work", "/proof_dir"}

(* ------------------------- command line -------------------------------- *)

\* Mutant of Join: ''.join(cmd), the separator forgotten.
RECURSIVE JoinNoSep(_)
JoinNoSep(cmd) ==
    IF Len(cmd) = 0 THEN "" ELSE cmd[1] \o JoinNoSep(Tail(cmd))

\* ' '.join(cmd): the tokens of a command separated by single spaces.
RECURSIVE Join(_)
Join(cmd) ==
    IF Len(cmd) = 0 THEN ""
    ELSE IF Len(cmd) = 1 THEN cmd[1]
    ELSE cmd[1] \o " " \o Join(Tail(cmd))

\* The diagnostic invocation of the preflight check.
HelpCmd == <<"ezkl", "--help">>

\* Mutant of steps: compile-circuit writes the circuit under another name.
StepsRenamedCircuit(model_path, srs_path) ==
    << [cmd |-> <<"ezkl", "gen-settings", "-M", model_path, "-O", "settings.json">>,
        msg |-> "Generating circuit settings..."],
       [cmd |-> <<"ezkl", "calibrate-settings", "-M", model_path, "-D", "input.json",
                  "-O", "settings.json">>,
        msg |-> "Calibrating settings..."],
       [cmd |-> <<"ezkl", "compile-circuit", "-M", model_path, "--compiled-circuit",
                  "network.compiled", "-S", "settings.json">>,
        msg |-> "Compiling model to circuit..."],
       [cmd |-> <<"ezkl", "setup", "-M", "model.compiled", "--pk-path", "pk.key",
                  "--vk-path", "vk.key", "--srs-path", srs_path>>,
        msg |-> "Running setup to generate keys..."],
       [cmd |-> <<"ezkl", "gen-witness", "-D", "input.json", "-M", "model.compiled",
                  "-O", "witness.json">>,
        msg |-> "Generating witness..."],
       [cmd |-> <<"ezkl", "prove", "--witness", "witness.json", "--proof-path",
                  "proof.json", "--pk-path", "pk.key", "--compiled-circuit",
                  "model.compiled", "--srs-path", srs_path>>,
        msg |-> "Generating proof..."],
       [cmd |-> <<"ezkl", "verify", "--proof-path", "proof.json", "--vk-path", "vk.key",
                  "--srs-path", srs_path>>,
        msg |-> "Verifying proof locally..."] >>

\* The core stage list, built from the parsed arguments.
steps(model_path, srs_path) ==
    << [cmd |-> <<"ezkl", "gen-settings", "-M", model_path, "-O", "settings.json">>,
        msg |-> "Generating circuit settings..."],
       [cmd |-> <<"ezkl", "calibrate-settings", "-M", model_path, "-D", "input.json",
                  "-O", "settings.json">>,
        msg |-> "Calibrating settings..."],
       [cmd |-> <<"ezkl", "compile-circuit", "-M", model_path, "--compiled-circuit",
                  "model.compiled", "-S", "settings.json">>,
        msg |-> "Compiling model to circuit..."],
       [cmd |-> <<"ezkl", "setup", "-M", "model.compiled", "--pk-path", "pk.key",
                  "--vk-path", "vk.key", "--srs-path", srs_path>>,
        msg |-> "Running setup to generate keys..."],
       [cmd |-> <<"ezkl", "gen-witness", "-D", "input.json", "-M", "model.compiled",
                  "-O", "witness.json">>,
        msg |-> "Generating witness..."],
       [cmd |-> <<"ezkl", "prove", "--witness", "witness.json", "--proof-path",
                  "proof.json", "--pk-path", "pk.key", "--compiled-circuit",
                  "model.compiled", "--srs-path", srs_path>>,
        msg |-> "Generating proof..."],
       [cmd |-> <<"ezkl", "verify", "--proof-path", "proof.json", "--vk-path", "vk.key",
                  "--srs-path", srs_path>>,
        msg |-> "Verifying proof locally..."] >>

\* Mutant of contract_step: the two extension stages in the other order.
ContractStepSwapped(srs_path) ==
    << [cmd |-> <<"ezkl", "encode-evm-calldata", "--proof-path", "proof.json",
                  "--calldata-path", "calldata.json">>,
        msg |-> "Generating calldata for on-chain verification..."],
       [cmd |-> <<"ezkl", "create-evm-verifier", "--vk-path", "vk.key",
                  "--sol-code-path", "Halo2Verifier.sol", "--srs-path", srs_path>>,
        msg |-> "Generating Solidity verifier contract..."] >>

\* The extension stage list, built only under --generate-contract.
contract_step(srs_path) ==
    << [cmd |-> <<"ezkl", "create-evm-verifier", "--vk-path", "vk.key",
                  "--sol-code-path", "Halo2Verifier.sol", "--srs-path", srs_path>>,
        msg |-> "Generating Solidity verifier contract..."],
       [cmd |-> <<"ezkl", "encode-evm-calldata", "--proof-path", "proof.json",
                  "--calldata-path", "calldata.json">>,
        msg |-> "Generating calldata for on-chain verification..."] >>

\* The flags of each ezkl subcommand whose argument is a file it writes.
OutputFlags(subcommand) ==
    CASE subcommand = "gen-settings" -> {"-O"}
      [] subcommand = "calibrate-settings" -> {"-O"}
      [] subcommand = "compile-circuit" -> {"--compiled-circuit"}
      [] subcommand = "setup" -> {"--pk-path", "--vk-path"}
      [] subcommand = "gen-witness" -> {"-O"}
      [] subcommand = "prove" -> {"--proof-path"}
      [] subcommand = "create-evm-verifier" -> {"--sol-code-path"}
      [] subcommand = "encode-evm-calldata" -> {"--calldata-path"}
      [] OTHER -> {}

\* The flags whose argument is a file the subcommand reads.  Every path flag
\* that is not an output is an input; calibrate-settings reads the settings
\* file it then overwrites.
InputFlags(subcommand) ==
    CASE subcommand = "gen-settings" -> {"-M"}
      [] subcommand = "calibrate-settings" -> {"-M", "-D", "-O"}
      [] subcommand = "compile-circuit" -> {"-M", "-S"}
      [] subcommand = "setup" -> {"-M", "--srs-path"}
      [] subcommand = "gen-witness" -> {"-D", "-M"}
      [] subcommand = "prove" -> {"--witness", "--pk-path", "--compiled-circuit", "--srs-path"}
      [] subcommand = "verify" -> {"--proof-path", "--vk-path", "--srs-path"}
      [] subcommand = "create-evm-verifier" -> {"--vk-path", "--srs-path"}
      [] subcommand = "encode-evm-calldata" -> {"--proof-path"}
      [] OTHER -> {}

\* The arguments that follow the given flags in a command.
FlagValues(cmd, flags) ==
    {cmd[k + 1] : k \in {n \in 3..(Len(cmd) - 1) : n % 2 = 1 /\ cmd[n] \in flags}}

\* The files a stage command writes, and the files it reads.
Outputs(cmd) == FlagValues(cmd, OutputFlags(cmd[2]))
Inputs(cmd) == FlagValues(cmd, InputFlags(cmd[2]))

\* The lines the driver prints itself.
NotFoundLine == "EZKL not found. Please install it with: pip install ezkl"
CompleteLine == "EZKL processing complete!"
FailedLine(cmd) == "Failed step: " \o Join(cmd)


(* ------------------------------ state ---------------------------------- *)

VARIABLES
    args,         \* the parsed command line (argparse namespace), never reassigned
    pc,           \* the statement of main() the process is at
    cwd,          \* the process's current working directory
    chdirs,       \* how many times os.chdir has succeeded
    preflight,    \* "none", "running", "ok", "notfound" or "nonzero"
    i,            \* position of the running for-loop in its stage list (0: not entered)
    calls,        \* stage commands handed to subprocess.run, in call order
    returncodes,  \* result.returncode of every stage invocation that returned
    inflight,     \* child processes started and not yet waited for
    out,          \* lines the driver printed on standard output
    exit_code,    \* <<>> while the process runs, <<status>> once it has exited
    artifacts,    \* files the stages of this run have written in the working directory
    cm            \* the create_model.py process (CmOff while only the driver runs)

vars == <<args, pc, cwd, chdirs, preflight, i, calls, returncodes, inflight, out,
          exit_code, artifacts, cm>>

\* No create_model.py process.
CmOff == [pc |-> "off"]

\* The namespaces parse_args can return: three required paths and one flag.
Configs ==
    [working_dir : WorkingDirs, model_path : ModelPaths, srs_path : SrsPaths,
     generate_contract : BOOLEAN]

\* The two stage lists of this run.
CoreSteps == steps(args.model_path, args.srs_path)
ExtSteps == contract_step(args.srs_path)

\* sys.exit(code) and the interpreter's exit after an uncaught exception.
Exit(code) == exit_code' = <<code>>

Init ==
    /\ args \in Configs
    /\ pc = "chdir"
    /\ cwd = LaunchDir
    /\ chdirs = 0
    /\ preflight = "none"
    /\ i = 0
    /\ calls = <<>>
    /\ returncodes = <<>>
    /\ inflight = {}
    /\ out = <<>>
    /\ exit_code = <<>>
    /\ artifacts = {}
    /\ cm = CmOff

(* ----------------------------- actions --------------------------------- *)

\* Mutant of Chdir: the OSError is swallowed and the run goes on where it is.
ChdirIgnoreError ==
    /\ pc = "chdir"
    /\ \E enterable \in BOOLEAN :
         IF enterable
         THEN cwd' = args.working_dir /\ chdirs' = chdirs + 1
         ELSE UNCHANGED <<cwd, chdirs>>
    /\ pc' = "preflight"
    /\ UNCHANGED <<cm, artifacts, args, preflight, i, calls, returncodes, inflight, out,
                   exit_code>>

\* Line 15: os.chdir(args.working_dir).  OSError (missing directory, no
\* permission) is not caught: the interpreter prints a traceback and exits 1.
Chdir ==
    /\ pc = "chdir"
    /\ \E enterable \in BOOLEAN :
         IF enterable
         THEN /\ cwd' = args.working_dir
              /\ chdirs' = chdirs + 1
              /\ pc' = "preflight"
              /\ UNCHANGED exit_code
         ELSE /\ pc' = "crashed"
              /\ Exit(1)
              /\ UNCHANGED <<cwd, chdirs>>
    /\ UNCHANGED <<cm, artifacts, args, preflight, i, calls, returncodes, inflight, out>>

\* Line 19, the launch: subprocess.run(["ezkl", "--help"], check=True, ...).
\* A tool that cannot be located raises FileNotFoundError at once.
PreflightInvoke ==
    /\ pc = "preflight"
    /\ \E located \in BOOLEAN :
         IF located
         THEN /\ inflight' = inflight \cup {HelpCmd}
              /\ preflight' = "running"
              /\ pc' = "preflight_wait"
         ELSE /\ preflight' = "notfound"
              /\ pc' = "preflight_except"
              /\ UNCHANGED inflight
    /\ UNCHANGED <<cm, artifacts, args, cwd, chdirs, i, calls, returncodes, out, exit_code>>

\* Line 19, the return: check=True turns a nonzero status into
\* CalledProcessError; the captured output is dropped.
PreflightReturn ==
    /\ pc = "preflight_wait"
    /\ \E rc \in ExitStatuses :
         /\ inflight' = inflight \ {HelpCmd}
         /\ IF rc = 0
            THEN preflight' = "ok" /\ pc' = "core_for"
            ELSE preflight' = "nonzero" /\ pc' = "preflight_except"
    /\ UNCHANGED <<cm, artifacts, args, cwd, chdirs, i, calls, returncodes, out, exit_code>>

\* Mutant of PreflightExcept: the check is tried again instead of giving up.
PreflightExceptRetry ==
    /\ pc = "preflight_except"
    /\ pc' = "preflight"
    /\ UNCHANGED <<cm, artifacts, args, cwd, chdirs, preflight, i, calls, returncodes,
                   inflight, out, exit_code>>

\* Mutant of PreflightExcept: the guidance is printed but sys.exit(1) is
\* missing, so the run falls through to the core loop.
PreflightExceptPass ==
    /\ pc = "preflight_except"
    /\ out' = Append(out, NotFoundLine)
    /\ pc' = "core_for"
    /\ UNCHANGED <<cm, artifacts, args, cwd, chdirs, preflight, i, calls, returncodes, inflight,
                   exit_code>>

\* Lines 20-22: except Exception: print the guidance, sys.exit(1).
PreflightExcept ==
    /\ pc = "preflight_except"
    /\ out' = Append(out, NotFoundLine)
    /\ Exit(1)
    /\ pc' = "failed"
    /\ UNCHANGED <<cm, artifacts, args, cwd, chdirs, preflight, i, calls, returncodes, inflight>>

\* A for-loop header over stages: take the next pair or leave the loop.
ForNext(stages, at, body, after) ==
    /\ pc = at
    /\ IF i < Len(stages)
       THEN i' = i + 1 /\ pc' = body
       ELSE i' = 0 /\ pc' = after
    /\ UNCHANGED <<cm, artifacts, args, cwd, chdirs, preflight, calls, returncodes, inflight, out,
                   exit_code>>

\* print(msg)
PrintMsg(stages, at, next) ==
    /\ pc = at
    /\ out' = Append(out, stages[i].msg)
    /\ pc' = next
    /\ UNCHANGED <<cm, artifacts, args, cwd, chdirs, preflight, i, calls, returncodes, inflight,
                   exit_code>>

\* subprocess.run(cmd), the launch.  Outside any try: a launch that raises
\* (the tool vanished since the preflight check) ends the process with a
\* traceback and status 1.
Invoke(stages, at, next) ==
    /\ pc = at
    /\ calls' = Append(calls, stages[i].cmd)
    /\ \E launched \in BOOLEAN :
         IF launched
         THEN /\ inflight' = inflight \cup {stages[i].cmd}
              /\ pc' = next
              /\ UNCHANGED exit_code
         ELSE /\ pc' = "crashed"
              /\ Exit(1)
              /\ UNCHANGED inflight
    /\ UNCHANGED <<cm, artifacts, args, cwd, chdirs, preflight, i, returncodes, out>>

\* subprocess.run(cmd), the return: blocks until the child has terminated.
\* By then the tool has written the files its command names as outputs: all
\* of them when it exits 0, any part of them when it does not.
Return(stages, at, next) ==
    /\ pc = at
    /\ \E rc \in ExitStatuses :
         /\ returncodes' = Append(returncodes, rc)
         /\ \E written \in SUBSET Outputs(stages[i].cmd) :
              /\ rc = 0 => written = Outputs(stages[i].cmd)
              /\ artifacts' = artifacts \cup written
    /\ inflight' = inflight \ {stages[i].cmd}
    /\ pc' = next
    /\ UNCHANGED <<cm, args, cwd, chdirs, preflight, i, calls, out, exit_code>>

\* if result.returncode != 0: print the failed command, sys.exit(1).
CheckResult(stages, at, loop) ==
    /\ pc = at
    /\ IF returncodes[Len(returncodes)] # 0
       THEN /\ out' = Append(out, FailedLine(stages[i].cmd))
            /\ Exit(1)
            /\ pc' = "failed"
       ELSE /\ pc' = loop
            /\ UNCHANGED <<out, exit_code>>
    /\ UNCHANGED <<cm, artifacts, args, cwd, chdirs, preflight, i, calls, returncodes, inflight>>

\* Mutant of CoreFor: the loop stops one stage short of the list.
CoreForShort ==
    /\ pc = "core_for"
    /\ IF i < Len(CoreSteps) - 1
       THEN i' = i + 1 /\ pc' = "core_print"
       ELSE i' = 0 /\ pc' = "if_contract"
    /\ UNCHANGED <<cm, artifacts, args, cwd, chdirs, preflight, calls, returncodes, inflight, out,
                   exit_code>>

\* Mutant of CoreCheck: a failed stage is run again instead of ending the run.
CoreCheckRetry ==
    /\ pc = "core_check"
    /\ pc' = IF returncodes[Len(returncodes)] # 0 THEN "core_run" ELSE "core_for"
    /\ Len(calls) < 12
    /\ UNCHANGED <<cm, artifacts, args, cwd, chdirs, preflight, i, calls, returncodes, inflight, out,
                   exit_code>>

\* Mutant of CoreCheck: the return code is not looked at.
CoreCheckIgnore ==
    /\ pc = "core_check"
    /\ pc' = "core_for"
    /\ UNCHANGED <<cm, artifacts, args, cwd, chdirs, preflight, i, calls, returncodes, inflight, out,
                   exit_code>>

\* Mutant of CoreCheck: sys.exit(result.returncode) in place of sys.exit(1).
CoreCheckPropagate ==
    /\ pc = "core_check"
    /\ IF returncodes[Len(returncodes)] # 0
       THEN /\ out' = Append(out, FailedLine(CoreSteps[i].cmd))
            /\ Exit(returncodes[Len(returncodes)])
            /\ pc' = "failed"
       ELSE /\ pc' = "core_for"
            /\ UNCHANGED <<out, exit_code>>
    /\ UNCHANGED <<cm, artifacts, args, cwd, chdirs, preflight, i, calls, returncodes, inflight>>

\* Mutant of CoreInvoke: the child is started (Popen) and not waited for.
CoreInvokeNoWait ==
    /\ pc = "core_run"
    /\ calls' = Append(calls, CoreSteps[i].cmd)
    /\ inflight' = inflight \cup {CoreSteps[i].cmd}
    /\ pc' = "core_for"
    /\ UNCHANGED <<cm, artifacts, args, cwd, chdirs, preflight, i, returncodes, out,
                   exit_code>>

\* Mutant of CorePrint: the description is not printed.
CorePrintSkipped ==
    /\ pc = "core_print"
    /\ pc' = "core_run"
    /\ UNCHANGED <<cm, artifacts, args, cwd, chdirs, preflight, i, calls, returncodes,
                   inflight, out, exit_code>>

\* Mutant of CoreCheck: a failed stage makes the driver remove what the run wrote.
CoreCheckCleanup ==
    /\ pc = "core_check"
    /\ IF returncodes[Len(returncodes)] # 0
       THEN /\ out' = Append(out, FailedLine(CoreSteps[i].cmd))
            /\ artifacts' = {}
            /\ Exit(1)
            /\ pc' = "failed"
       ELSE /\ pc' = "core_for"
            /\ UNCHANGED <<out, exit_code, artifacts>>
    /\ UNCHANGED <<cm, args, cwd, chdirs, preflight, i, calls, returncodes, inflight>>

\* Lines 34-39: the core loop.
CoreFor == ForNext(CoreSteps, "core_for", "core_print", "if_contract")
CorePrint == PrintMsg(CoreSteps, "core_print", "core_run")
CoreInvoke == Invoke(CoreSteps, "core_run", "core_wait")
CoreReturn == Return(CoreSteps, "core_wait", "core_check")
CoreCheck == CheckResult(CoreSteps, "core_check", "core_for")

\* Mutant of IfContract: the flag is not consulted.
IfContractAlways ==
    /\ pc = "if_contract"
    /\ pc' = "ext_for"
    /\ UNCHANGED <<cm, artifacts, args, cwd, chdirs, preflight, i, calls, returncodes, inflight, out,
                   exit_code>>

\* Line 41: if args.generate_contract.
IfContract ==
    /\ pc = "if_contract"
    /\ pc' = IF args.generate_contract THEN "ext_for" ELSE "complete"
    /\ UNCHANGED <<cm, artifacts, args, cwd, chdirs, preflight, i, calls, returncodes, inflight, out,
                   exit_code>>

\* Mutant of ExtCheck: the failure line carries the description, not the command.
ExtCheckPrintsMsg ==
    /\ pc = "ext_check"
    /\ IF returncodes[Len(returncodes)] # 0
       THEN /\ out' = Append(out, "Failed step: " \o ExtSteps[i].msg)
            /\ Exit(1)
            /\ pc' = "failed"
       ELSE /\ pc' = "ext_for"
            /\ UNCHANGED <<out, exit_code>>
    /\ UNCHANGED <<cm, artifacts, args, cwd, chdirs, preflight, i, calls, returncodes, inflight>>

\* Mutant of ExtCheck: the return code is not looked at.
ExtCheckIgnore ==
    /\ pc = "ext_check"
    /\ pc' = "ext_for"
    /\ UNCHANGED <<cm, artifacts, args, cwd, chdirs, preflight, i, calls, returncodes,
                   inflight, out, exit_code>>

\* Lines 46-51: the extension loop.
ExtFor == ForNext(ExtSteps, "ext_for", "ext_print", "complete")
ExtPrint == PrintMsg(ExtSteps, "ext_print", "ext_run")
ExtInvoke == Invoke(ExtSteps, "ext_run", "ext_wait")
ExtReturn == Return(ExtSteps, "ext_wait", "ext_check")
ExtCheck == CheckResult(ExtSteps, "ext_check", "ext_for")

\* Mutant of Complete: the launch directory is restored before returning.
CompleteChdirBack ==
    /\ pc = "complete"
    /\ out' = Append(out, CompleteLine)
    /\ cwd' = LaunchDir
    /\ chdirs' = chdirs + 1
    /\ Exit(0)
    /\ pc' = "done"
    /\ UNCHANGED <<cm, artifacts, args, preflight, i, calls, returncodes, inflight>>

\* Line 53 and the return from main(): the completion message, status 0.
Complete ==
    /\ pc = "complete"
    /\ out' = Append(out, CompleteLine)
    /\ Exit(0)
    /\ pc' = "done"
    /\ UNCHANGED <<cm, artifacts, args, cwd, chdirs, preflight, i, calls, returncodes, inflight>>

Next ==
    \/ Chdir
    \/ PreflightInvoke
    \/ PreflightReturn
    \/ PreflightExcept
    \/ CoreFor
    \/ CorePrint
    \/ CoreInvoke
    \/ CoreReturn
    \/ CoreCheck
    \/ IfContract
    \/ ExtFor
    \/ ExtPrint
    \/ ExtInvoke
    \/ ExtReturn
    \/ ExtCheck
    \/ Complete

Spec == Init /\ [][Next]_vars


\* The driver is one sequential process that always takes its next step, and
\* a child process it waits for terminates.
FairSpec == Spec /\ WF_vars(Next)

(* ------------------------ vocabulary of the claims --------------------- *)

\* The declared registry order, by subcommand: seven core, two extension.
DeclaredOrder ==
    <<"gen-settings", "calibrate-settings", "compile-circuit", "setup", "gen-witness",
      "prove", "verify", "create-evm-verifier", "encode-evm-calldata">>

ExtensionNames == {"create-evm-verifier", "encode-evm-calldata"}

\* The subcommand a stage command runs: the token after the executable.
Subcommand(cmd) == cmd[2]

\* The registry of this run: core sequence, then extension sequence.
Registry == CoreSteps \o ExtSteps

Exited == exit_code # <<>>
Terminal == {"done", "failed", "crashed"}
PreflightFailed == preflight \in {"notfound", "nonzero"}

\* Stage k was invoked, has returned, and returned 0.
ReturnedZero(k) == k <= Len(returncodes) /\ returncodes[k] = 0
CoreAllZero == \A k \in 1..Len(CoreSteps) : ReturnedZero(k)
SomeNonzero == \E k \in 1..Len(returncodes) : returncodes[k] # 0

(* ------------------------------ C1 ------------------------------------- *)

\* C1: in every state of every run, whatever the flag and the statuses, the
\* stage commands invoked so far are a prefix of the registry in declared
\* order (gen-settings ... verify, create-evm-verifier, encode-evm-calldata):
\* nothing skipped, reordered or invoked twice.
C1_CallsArePrefixOfRegistry ==
    /\ Len(calls) <= Len(DeclaredOrder)
    /\ \A k \in 1..Len(calls) :
         /\ Subcommand(calls[k]) = DeclaredOrder[k]
         /\ calls[k] = Registry[k].cmd
    /\ \A k, m \in 1..Len(calls) : calls[k] = calls[m] => k = m

C1_Witness == pc = "ext_wait" /\ Len(calls) = 9

(* ------------------------------ C2 ------------------------------------- *)

\* C2: a stage that returned nonzero is the last stage invoked (stages after
\* it in the core or the extension sequence are never invoked, and a core
\* failure keeps every extension stage out), the run goes nowhere but to
\* Failed, and the exit status is nonzero; a failure of the 4th core stage
\* leaves exactly 4 invocations.
C2_FailFast ==
    \A k \in 1..Len(returncodes) :
        returncodes[k] # 0 =>
            /\ Len(calls) = k
            /\ Len(returncodes) = k
            /\ pc \in {"core_check", "ext_check", "failed"}
            /\ k <= Len(CoreSteps) =>
                 \A m \in 1..Len(calls) : Subcommand(calls[m]) \notin ExtensionNames
            /\ Exited => exit_code # <<0>>
            /\ pc \notin {"core_check", "ext_check"} => Exited

C2_Witness ==
    /\ pc = "failed"
    /\ Len(calls) = 4
    /\ returncodes[4] # 0
    /\ exit_code = <<1>>

(* ------------------------------ C3 ------------------------------------- *)

\* C3: an extension stage has been invoked only if the contract flag is set
\* and all 7 core stages were invoked and returned 0; with the flag unset no
\* extension stage is ever invoked.
C3_ExtensionOnlyAfterCoreAndFlag ==
    /\ (\E k \in 1..Len(calls) : Subcommand(calls[k]) \in ExtensionNames) =>
         /\ args.generate_contract
         /\ Len(CoreSteps) = 7
         /\ \A k \in 1..7 :
              /\ calls[k] = CoreSteps[k].cmd
              /\ Subcommand(calls[k]) = DeclaredOrder[k]
              /\ ReturnedZero(k)
    /\ ~args.generate_contract =>
         /\ Len(calls) <= 7
         /\ pc \notin {"ext_for", "ext_print", "ext_run", "ext_wait", "ext_check"}

C3_Witness ==
    /\ pc = "ext_wait"
    /\ Len(calls) = 8
    /\ Subcommand(calls[8]) = "create-evm-verifier"

(* ------------------------------ C4 ------------------------------------- *)

\* C4: with the flag set and all 7 core stages returning 0, the run does not
\* end before the extension sequence has been entered; the 8th and 9th
\* invocations are create-evm-verifier and encode-evm-calldata in that order;
\* and if both return 0 the run ends with exactly 9 invocations and exit 0.
C4_ExtensionRunsInOrder ==
    (args.generate_contract /\ CoreAllZero) =>
        /\ Len(calls) <= 9
        /\ Len(calls) >= 8 =>
             Subcommand(calls[8]) = "create-evm-verifier" /\ calls[8] = ExtSteps[1].cmd
        /\ Len(calls) >= 9 =>
             Subcommand(calls[9]) = "encode-evm-calldata" /\ calls[9] = ExtSteps[2].cmd
        /\ pc \in Terminal => Len(calls) >= 8
        /\ (pc \in Terminal /\ ReturnedZero(8)) => Len(calls) = 9
        /\ (pc \in Terminal /\ ReturnedZero(8) /\ ReturnedZero(9)) =>
             pc = "done" /\ exit_code = <<0>>

C4_Witness ==
    /\ pc = "done"
    /\ args.generate_contract
    /\ Len(calls) = 9
    /\ exit_code = <<0>>

(* ------------------------------ C5 ------------------------------------- *)

\* C5: a stage is invoked only after the preflight check has succeeded; when
\* the check fails (tool not located, or `ezkl --help` exits nonzero) no stage
\* is invoked, and the run ends printing the installation guidance and
\* nothing else, with a nonzero status.
C5_PreflightGate ==
    /\ calls # <<>> => preflight = "ok"
    /\ preflight \in {"none", "running"} => pc \in {"chdir", "preflight", "preflight_wait", "crashed"}
    /\ PreflightFailed =>
         /\ calls = <<>>
         /\ pc \in {"preflight_except", "failed"}
         /\ pc = "failed" =>
              /\ out = <<NotFoundLine>>
              /\ Exited
              /\ exit_code # <<0>>

C5_Witness == pc = "failed" /\ preflight = "nonzero" /\ out = <<NotFoundLine>>

(* ------------------------------ C6 ------------------------------------- *)

\* C6: with the flag unset and a tool that exits 0 every time it is run
\* (preflight included, every launch succeeding), a run that has ended has
\* made exactly the 7 core invocations, is in Done with the completion
\* message as its last line, and exited 0.
AlwaysZeroTool ==
    /\ preflight = "ok"
    /\ ~SomeNonzero
    /\ pc # "crashed"

C6_AllZeroUnsetFlag ==
    (~args.generate_contract /\ AlwaysZeroTool /\ pc \in Terminal) =>
        /\ pc = "done"
        /\ Len(calls) = 7
        /\ \A k \in 1..7 : calls[k] = CoreSteps[k].cmd /\ Subcommand(calls[k]) = DeclaredOrder[k]
        /\ Len(returncodes) = 7
        /\ out # <<>>
        /\ out[Len(out)] = CompleteLine
        /\ exit_code = <<0>>

C6_Witness ==
    /\ ~args.generate_contract
    /\ pc = "done"
    /\ Len(calls) = 7
    /\ ~SomeNonzero

(* ------------------------------ C7 ------------------------------------- *)

\* C7: a run whose preflight check and every due stage succeeded exits 0; a
\* run that exits after the tool was missing at preflight or after a stage,
\* core or extension, returned nonzero exits with 1 exactly, whatever the
\* nonzero status was.
DueStages == IF args.generate_contract THEN 9 ELSE 7

FullSuccess ==
    /\ preflight = "ok"
    /\ Len(returncodes) = DueStages
    /\ ~SomeNonzero

C7_ExitCodes ==
    Exited =>
        /\ FullSuccess => exit_code = <<0>>
        /\ (PreflightFailed \/ SomeNonzero) => exit_code = <<1>>

C7_Witness ==
    /\ exit_code = <<1>>
    /\ returncodes # <<>>
    /\ returncodes[Len(returncodes)] \notin {0, 1}


(* ------------------------------ C8 ------------------------------------- *)

\* The command whose failure sent the run to Failed.
FailingCmd == IF PreflightFailed THEN HelpCmd ELSE calls[Len(calls)]

\* A printed line reports a command when it ends in the command's tokens,
\* in order, separated by single spaces.
ReportPrefixes == {"", "Failed step: ", "Failed: ", "Command failed: "}
Reports(line, cmd) ==
    \E prefix \in ReportPrefixes :
        line = prefix \o cmd[1] \o " " \o Join(Tail(cmd))

\* C8 as stated: every run that ends in Failed, from Preflight or from a
\* stage, has reported the exact failing command and exits nonzero.
C8_Original ==
    pc = "failed" =>
        /\ \E n \in 1..Len(out) : Reports(out[n], FailingCmd)
        /\ Exited /\ exit_code # <<0>>

\* C8 amended: every run that ends in Failed exits nonzero; when a stage
\* failed, the last line printed reports that stage's exact command; when
\* the preflight check failed, the only line printed is the installation
\* guidance, which does not report the `ezkl --help` command.
C8_FailedReports ==
    pc = "failed" =>
        /\ Exited /\ exit_code # <<0>>
        /\ ~PreflightFailed =>
             /\ SomeNonzero
             /\ Reports(out[Len(out)], FailingCmd)
        /\ PreflightFailed =>
             /\ out = <<NotFoundLine>>
             /\ ~Reports(out[1], HelpCmd)

C8_Witness == pc = "failed" /\ preflight = "notfound" /\ Exited

(* ------------------------------ C9 ------------------------------------- *)

\* The failure lines among the lines printed.
FailureLineAt(n) == \E k \in 1..Len(Registry) : out[n] = FailedLine(Registry[k].cmd)
FailureLines == {n \in 1..Len(out) : FailureLineAt(n)}

\* The failure line of the 4th stage, written out token by token.
SetupFailureLine ==
    "Failed step: ezkl setup -M model.compiled --pk-path pk.key --vk-path vk.key --srs-path "
        \o args.srs_path

\* The failure line of the 1st stage, written out token by token.
GenSettingsFailureLine ==
    "Failed step: ezkl gen-settings -M " \o args.model_path \o " -O settings.json"

\* C9: once a stage has returned nonzero and the driver has acted on it,
\* exactly one failure line has been printed; it is the last line; the
\* command it names is, token for token with the substituted paths, the
\* command of the stage that failed and of no other stage.  No failure line
\* is printed in any other state.
C9_OneVerbatimFailureLine ==
    /\ (pc = "failed" /\ SomeNonzero) =>
         /\ Cardinality(FailureLines) = 1
         /\ FailureLines = {Len(out)}
         /\ returncodes[Len(calls)] # 0
         /\ out[Len(out)] = "Failed step: " \o Join(calls[Len(calls)])
         /\ out[Len(out)] = FailedLine(Registry[Len(calls)].cmd)
         /\ \A k \in 1..Len(Registry) :
              k # Len(calls) => out[Len(out)] # FailedLine(Registry[k].cmd)
         /\ Len(calls) = 4 => out[Len(out)] = SetupFailureLine
         /\ Len(calls) = 1 => out[Len(out)] = GenSettingsFailureLine
    /\ ~(pc = "failed" /\ SomeNonzero) => FailureLines = {}

C9_Witness ==
    /\ pc = "failed"
    /\ Len(calls) = 4
    /\ out[Len(out)] = SetupFailureLine

(* ------------------------------ C10 ------------------------------------ *)

\* C10: the working directory is entered at most once; it has been entered,
\* and is the configured one, in every state where the preflight check or a
\* stage has started; and no step after that first one changes it.
CwdSetBeforeAnyInvocation ==
    /\ chdirs <= 1
    /\ chdirs = 0 => cwd = LaunchDir
    /\ (preflight # "none" \/ calls # <<>> \/ inflight # {} \/ pc \in {"done", "failed"}) =>
         chdirs = 1 /\ cwd = args.working_dir

C10_CwdSetOnceFirst ==
    /\ []CwdSetBeforeAnyInvocation
    /\ [][pc # "chdir" => (cwd' = cwd /\ chdirs' = chdirs)]_vars

C10_Witness ==
    /\ pc = "done"
    /\ chdirs = 1
    /\ cwd = args.working_dir
    /\ cwd # LaunchDir


(* ------------------------------ C11 ------------------------------------ *)

\* C11: while the working directory has not been entered nothing else has
\* happened (no preflight invocation, no stage, no output, no file written),
\* and a run whose os.chdir failed has ended unsuccessfully: exit status
\* nonzero, no completion message.
C11_ChdirFailureEndsRun ==
    /\ chdirs = 0 =>
         /\ pc \in {"chdir", "crashed"}
         /\ cwd = LaunchDir
         /\ preflight = "none"
         /\ calls = <<>>
         /\ inflight = {}
         /\ artifacts = {}
         /\ \A n \in 1..Len(out) : out[n] # CompleteLine
    /\ (chdirs = 0 /\ pc # "chdir") =>
         /\ pc = "crashed"
         /\ Exited
         /\ exit_code # <<0>>

C11_Witness == pc = "crashed" /\ chdirs = 0 /\ exit_code = <<1>> /\ out = <<>>

(* ------------------------------ C12 ------------------------------------ *)

\* C12: at most one external invocation is in flight, and only while the
\* driver waits for it; the invocation in flight is the preflight one or the
\* last stage invoked; stage k is invoked only after stage k-1 has returned,
\* with status 0.
C12_OneInvocationAtATime ==
    /\ Cardinality(inflight) <= 1
    /\ inflight # {} => pc \in {"preflight_wait", "core_wait", "ext_wait"}
    /\ pc = "preflight_wait" => inflight = {HelpCmd} /\ calls = <<>>
    /\ pc \in {"core_wait", "ext_wait"} =>
         /\ inflight = {calls[Len(calls)]}
         /\ Len(returncodes) = Len(calls) - 1
    /\ \A k \in 2..Len(calls) : ReturnedZero(k - 1)
    /\ Len(returncodes) <= Len(calls)

C12_Witness ==
    /\ pc = "core_wait"
    /\ Len(calls) = 5
    /\ inflight = {calls[5]}
    /\ Len(returncodes) = 4


(* ------------------------------ C13 ------------------------------------ *)

\* The outputs of every stage that returned 0 are on disk.
SuccessfulOutputsPresent ==
    \A k \in 1..Len(returncodes) :
        returncodes[k] = 0 => Outputs(calls[k]) \subseteq artifacts

\* C13: no step ever removes an artifact; the step into Failed (from
\* preflight or from a stage) leaves the artifacts exactly as they were; the
\* artifacts change only while the driver waits for a stage; hence the
\* outputs of every stage that succeeded stay in place.
C13_NoRollback ==
    /\ []SuccessfulOutputsPresent
    /\ [][/\ artifacts \subseteq artifacts'
          /\ pc' \in {"failed", "crashed", "done"} => artifacts' = artifacts
          /\ pc \notin {"core_wait", "ext_wait"} => artifacts' = artifacts]_vars

C13_Witness ==
    /\ pc = "failed"
    /\ Len(calls) = 5
    /\ {"settings.json", "model.compiled", "pk.key", "vk.key"} \subseteq artifacts

(* ------------------------------ C14 ------------------------------------ *)

\* Every file stage k of the list writes is read by a later stage of the list.
FedForward(stages, k) ==
    \A f \in Outputs(stages[k].cmd) :
        \E m \in (k + 1)..Len(stages) : f \in Inputs(stages[m].cmd)

CoreOutputs == UNION {Outputs(CoreSteps[k].cmd) : k \in 1..Len(CoreSteps)}
ExtOutputs == UNION {Outputs(ExtSteps[k].cmd) : k \in 1..Len(ExtSteps)}
RegistryInputs == UNION {Inputs(Registry[k].cmd) : k \in 1..Len(Registry)}

\* C14 as stated: for every stage of the registry, core and extension, each
\* output filename of its command is an input filename of a later stage.
C14_Original == \A k \in 1..Len(Registry) : FedForward(Registry, k)

\* C14 amended: each output filename of a core stage (settings.json,
\* model.compiled, pk.key, vk.key, witness.json, proof.json) is an input
\* filename of a later stage; the outputs of the two extension stages
\* (Halo2Verifier.sol, calldata.json) are inputs of no stage.
C14_CoreChain ==
    /\ CoreOutputs = {"settings.json", "model.compiled", "pk.key", "vk.key",
                      "witness.json", "proof.json"}
    /\ \A k \in 1..Len(CoreSteps) : FedForward(CoreSteps, k)
    /\ ExtOutputs = {"Halo2Verifier.sol", "calldata.json"}
    /\ ExtOutputs \cap RegistryInputs = {}

C14_Witness ==
    /\ pc = "done"
    /\ args.generate_contract
    /\ CoreOutputs \cup ExtOutputs \subseteq artifacts

(* ------------------------------ C15 ------------------------------------ *)

\* The descriptions among the lines printed, in print order.
IsDescription(line) == \E k \in 1..Len(Registry) : line = Registry[k].msg
Descriptions == SelectSeq(out, IsDescription)

\* Every description printed belongs to a stage that was invoked, except the
\* one printed last while its stage is the next statement to run.
DescriptionsMatchCalls ==
    /\ Len(Descriptions) =
         Len(calls) + (IF pc \in {"core_run", "ext_run"} THEN 1 ELSE 0)
    /\ \A k \in 1..Len(Descriptions) : Descriptions[k] = Registry[k].msg
    /\ ~args.generate_contract =>
         \A n \in 1..Len(out), k \in 1..Len(ExtSteps) : out[n] # ExtSteps[k].msg

\* C15: description k is printed, then stage k is invoked, for each k in
\* order: at every invocation the last line printed is that stage's own
\* description, the step after a description is that stage's invocation, and
\* no description is printed for a stage that is not invoked.
C15_DescriptionThenInvocation ==
    /\ []DescriptionsMatchCalls
    /\ [][/\ calls' # calls =>
               /\ out # <<>>
               /\ out[Len(out)] = Registry[Len(calls')].msg
               /\ calls'[Len(calls')] = Registry[Len(calls')].cmd
               /\ out' = out
          /\ (out' # out /\ IsDescription(out'[Len(out')])) =>
               /\ pc' \in {"core_run", "ext_run"}
               /\ calls' = calls
          /\ pc \in {"core_run", "ext_run"} => Len(calls') = Len(calls) + 1]_vars

C15_Witness ==
    /\ pc = "ext_wait"
    /\ Len(calls) = 8
    /\ out[Len(out)] = "Generating Solidity verifier contract..."
    /\ Len(Descriptions) = 8


(* ------------------------------ C16 ------------------------------------ *)

\* The files the driver expects to find, supplied from outside the run.
External == {args.model_path, "input.json", args.srs_path}

\* C16: every file the command of an invoked stage reads is supplied from
\* outside (model, input.json, SRS) or is an output of an earlier stage of the
\* same run that returned 0, and is on disk when the stage starts; for all 7
\* core stages and both extension stages.
C16_NoReadBeforeWrite ==
    /\ \A k \in 1..Len(calls) :
         \A f \in Inputs(calls[k]) :
             \/ f \in External
             \/ \E m \in 1..(k - 1) : ReturnedZero(m) /\ f \in Outputs(calls[m])
    /\ pc \in {"core_wait", "ext_wait"} =>
         Inputs(calls[Len(calls)]) \subseteq External \cup artifacts

C16_Witness ==
    /\ pc = "ext_wait"
    /\ Len(calls) = 9
    /\ Inputs(calls[9]) = {"proof.json"}
    /\ "proof.json" \in artifacts

(* ------------------------------ C17 ------------------------------------ *)

CompletionReported == \E n \in 1..Len(out) : out[n] = CompleteLine

\* C17: the completion message is printed, and the process exits 0, only
\* when the preflight check succeeded and every stage of the core sequence,
\* and of the extension sequence under the flag, was invoked and returned 0.
C17_CompletionOnlyOnFullSuccess ==
    (CompletionReported \/ exit_code = <<0>> \/ pc = "done") =>
        /\ chdirs = 1
        /\ preflight = "ok"
        /\ Len(calls) = DueStages
        /\ Len(returncodes) = DueStages
        /\ \A k \in 1..DueStages : calls[k] = Registry[k].cmd /\ returncodes[k] = 0
        /\ ~SomeNonzero
        /\ out[Len(out)] = CompleteLine
        /\ exit_code = <<0>>

C17_Witness ==
    /\ CompletionReported
    /\ exit_code = <<0>>
    /\ Len(returncodes) = DueStages

(* ------------------------------ C18 ------------------------------------ *)

\* C18 as stated: every run eventually reaches Done or Failed.
C18_Original == <>(pc \in {"done", "failed"})

\* C18 amended: every run eventually ends, in Done, in Failed or by an
\* uncaught exception (os.chdir or the launch of a stage raising) with exit
\* status 1, after at most one preflight invocation and at most 9 stage
\* invocations.
C18_Terminates ==
    /\ <>(pc \in Terminal /\ Exited)
    /\ [](Len(calls) <= 9 /\ (pc = "crashed" => exit_code = <<1>>))
    /\ [][preflight' # preflight =>
            \/ preflight = "none" /\ preflight' \in {"running", "notfound"}
            \/ preflight = "running" /\ preflight' \in {"ok", "nonzero"}]_vars

C18_Witness == pc = "crashed" /\ Len(calls) = 9 /\ exit_code = <<1>>


(***************************************************************************)
(* The data-preparation scripts, src/ezkl/create_model.py ("root") and     *)
(* src/ezkl/script/create_model.py ("script").  They differ in the number  *)
(* of arguments required and in the generate_model flag of the second.     *)
(* A command-line argument is a sequence of characters; the score the      *)
(* scripts compute is not modelled, only what they validate, print on      *)
(* rejection, create and write.                                            *)
(***************************************************************************)

\* Longest features argument enumerated exhaustively.
MaxText == 3

\* The characters the features arguments are made of.
Alphabet == {"[", "]", ",", "1", "\"", " ", "{", "}", "x"}

\* Longer features arguments: well-formed lists of 4, and near misses.
LongTexts ==
    { <<"[", "1", ",", "1", ",", "1", ",", "1", "]">>,
      <<"[", "1", ",", " ", "1", "1", ",", "1", ",", "1", "]", " ">>,
      <<"[", "1", ",", "1", ",", "1", "]">>,
      <<"[", "1", ",", "1", ",", "1", ",", "1", ",", "1", "]">>,
      <<"[", "1", ",", "1", ",", "1", ",", "1">>,
      <<"[", "1", ",", "1", ",", "1", ",", "1", ",", "]">>,
      <<"[", "1", ",", "1", ",", "1", ",", "1", "]", "x">>,
      <<"[", "[", "1", ",", "1", ",", "1", ",", "1", "]", "]">>,
      <<"\"", "1", "1", "1", "1", "\"">>,
      <<"[", "\"", "x", "\"", ",", "1", ",", "1", ",", "{", "}", "]">> }

FeatureTexts == LongTexts \cup UNION {[1..n -> Alphabet] : n \in 0..MaxText}

(* ------------------------------ json.loads ----------------------------- *)

JsonFail == [ok |-> FALSE, val |-> [t |-> "none"], pos |-> 0]
JsonOk(val, pos) == [ok |-> TRUE, val |-> val, pos |-> pos]

\* The first position at or after p that holds no blank.
RECURSIVE SkipWs(_, _)
SkipWs(text, p) ==
    IF p <= Len(text) /\ text[p] = " " THEN SkipWs(text, p + 1) ELSE p

\* The first position at or after p that holds no digit.
RECURSIVE DigitsEnd(_, _)
DigitsEnd(text, p) ==
    IF p <= Len(text) /\ text[p] = "1" THEN DigitsEnd(text, p + 1) ELSE p

\* The position of the first quote at or after p, 0 when there is none.
RECURSIVE QuoteAt(_, _)
QuoteAt(text, p) ==
    IF p > Len(text) THEN 0
    ELSE IF text[p] = "\"" THEN p
    ELSE QuoteAt(text, p + 1)

\* The JSON value that starts at p (a number, a string, an empty object or
\* an array of values) and the position after it.
RECURSIVE ParseValue(_, _), ParseElements(_, _, _)
ParseValue(text, p) ==
    IF p > Len(text) THEN JsonFail
    ELSE CASE text[p] = "1" ->
                JsonOk([t |-> "num", v |-> SubSeq(text, p, DigitsEnd(text, p) - 1)],
                       DigitsEnd(text, p))
           [] text[p] = "\"" ->
                LET q == QuoteAt(text, p + 1)
                IN  IF q = 0 THEN JsonFail
                    ELSE JsonOk([t |-> "str", v |-> SubSeq(text, p + 1, q - 1)], q + 1)
           [] text[p] = "{" ->
                LET q == SkipWs(text, p + 1)
                IN  IF q <= Len(text) /\ text[q] = "}"
                    THEN JsonOk([t |-> "dict", v |-> <<>>], q + 1)
                    ELSE JsonFail
           [] text[p] = "[" ->
                LET q == SkipWs(text, p + 1)
                IN  IF q <= Len(text) /\ text[q] = "]"
                    THEN JsonOk([t |-> "list", v |-> <<>>], q + 1)
                    ELSE ParseElements(text, q, <<>>)
           [] OTHER -> JsonFail

\* The rest of an array whose elements so far are acc: a value, then "," and
\* more, or "]".
ParseElements(text, p, acc) ==
    LET r == ParseValue(text, p)
        q == SkipWs(text, r.pos)
    IN  IF ~r.ok \/ q > Len(text) THEN JsonFail
        ELSE IF text[q] = ","
             THEN ParseElements(text, SkipWs(text, q + 1), Append(acc, r.val))
        ELSE IF text[q] = "]"
             THEN JsonOk([t |-> "list", v |-> Append(acc, r.val)], q + 1)
        ELSE JsonFail

\* json.loads(text): one value with blanks around it and nothing else;
\* ok = FALSE stands for JSONDecodeError.
json_loads(text) ==
    LET r == ParseValue(text, SkipWs(text, 1))
    IN  IF r.ok /\ SkipWs(text, r.pos) = Len(text) + 1 THEN r ELSE JsonFail


(* --------------------------- the script's run -------------------------- *)

driverVars == <<args, pc, cwd, chdirs, preflight, i, calls, returncodes, inflight, out,
                exit_code, artifacts>>

Scripts == {"root", "script"}

\* len(sys.argv) each script requires: 3 arguments, or 4 with the flag.
CmNeed(script) == IF script = "root" THEN 4 ELSE 5

\* sys.argv in full, and the command lines cut short of it.
FullArgvs ==
    {<<"create_model.py", "proof_dir", "0xabc", text, flag>> :
        text \in FeatureTexts, flag \in {"0", "1"}}
Argvs == {SubSeq(argv, 1, n) : argv \in FullArgvs, n \in 3..5}

UsageLines(script) ==
    IF script = "root"
    THEN <<"Usage: python3 create_model.py <output_dir> <address> <features>">>
    ELSE <<"Usage: python3 ./script/create_model.py <output_dir> <address> <features> <generate_model_flag>",
           "where generate_model_flag is 1 to generate model or 0 to skip model generation">>
JsonErrorLine == "Error: Features must be a valid JSON array"
ValueErrorLine == "Error: Features must be a list of 4 numbers"

\* os.path.join(output_dir, name)
PathJoin(dir, name) == dir \o "/" \o name

\* sys.argv[n], counted from 0 as the script counts.
SysArgv(n) == cm.argv[n + 1]

CmInit ==
    /\ args = <<>>
    /\ pc = "off"
    /\ cwd = LaunchDir
    /\ chdirs = 0
    /\ preflight = "none"
    /\ i = 0
    /\ calls = <<>>
    /\ returncodes = <<>>
    /\ inflight = {}
    /\ out = <<>>
    /\ exit_code = <<>>
    /\ artifacts = {}
    /\ \E script \in Scripts, argv \in Argvs :
         cm = [script |-> script, argv |-> argv, pc |-> "argc",
               loaded |-> JsonFail.val, generate_model |-> (script = "root"),
               dirs |-> {}, files |-> {}, out |-> <<>>, exit |-> <<>>]

\* Lines 11-14 (root 11-13): too few arguments: usage, sys.exit(1).
CmArgc ==
    /\ cm.pc = "argc"
    /\ IF Len(cm.argv) < CmNeed(cm.script)
       THEN cm' = [cm EXCEPT !.out = cm.out \o UsageLines(cm.script),
                             !.exit = <<1>>, !.pc = "failed"]
       ELSE cm' = [cm EXCEPT !.pc = "loads"]
    /\ UNCHANGED driverVars

\* Line 19 (root 18) and the first except clause: json.loads(sys.argv[3]);
\* JSONDecodeError prints the error and exits 1.
CmLoads ==
    /\ cm.pc = "loads"
    /\ LET r == json_loads(SysArgv(3))
       IN  IF r.ok
           THEN cm' = [cm EXCEPT !.loaded = r.val, !.pc = "validate"]
           ELSE cm' = [cm EXCEPT !.out = Append(cm.out, JsonErrorLine),
                                 !.exit = <<1>>, !.pc = "failed"]
    /\ UNCHANGED driverVars

\* Mutant of CmValidate: the isinstance test is missing.  len() of a number
\* raises TypeError, which no except clause catches.
CmValidateLenOnly ==
    /\ cm.pc = "validate"
    /\ IF cm.loaded.t = "num"
       THEN cm' = [cm EXCEPT !.exit = <<1>>, !.pc = "crashed"]
       ELSE IF Len(cm.loaded.v) # 4
       THEN cm' = [cm EXCEPT !.out = Append(cm.out, ValueErrorLine),
                             !.exit = <<1>>, !.pc = "failed"]
       ELSE cm' = [cm EXCEPT !.pc = "makedirs"]
    /\ UNCHANGED driverVars

\* Lines 20-22 (root 19-20) and the second except clause: the flag is read
\* (script only), then anything but a list of 4 raises ValueError, which
\* prints the error and exits 1.
CmValidate ==
    /\ cm.pc = "validate"
    /\ LET flag == IF cm.script = "script" THEN SysArgv(4) = "1" ELSE cm.generate_model
       IN  IF cm.loaded.t # "list" \/ Len(cm.loaded.v) # 4
           THEN cm' = [cm EXCEPT !.generate_model = flag,
                                 !.out = Append(cm.out, ValueErrorLine),
                                 !.exit = <<1>>, !.pc = "failed"]
           ELSE cm' = [cm EXCEPT !.generate_model = flag, !.pc = "makedirs"]
    /\ UNCHANGED driverVars

\* Line 30 (root 29): os.makedirs(output_dir, exist_ok=True); OSError is not
\* caught.
CmMakedirs ==
    /\ cm.pc = "makedirs"
    /\ \E created \in BOOLEAN :
         IF created
         THEN cm' = [cm EXCEPT !.dirs = cm.dirs \cup {SysArgv(1)}, !.pc = "score"]
         ELSE cm' = [cm EXCEPT !.exit = <<1>>, !.pc = "crashed"]
    /\ UNCHANGED driverVars

\* Lines 49-71: the model is evaluated on the features.  torch.tensor raises
\* on an element that is not a number; the exception is not caught.
CmScore ==
    /\ cm.pc = "score"
    /\ IF \A k \in 1..Len(cm.loaded.v) : cm.loaded.v[k].t = "num"
       THEN cm' = [cm EXCEPT !.pc = "export"]
       ELSE cm' = [cm EXCEPT !.exit = <<1>>, !.pc = "crashed"]
    /\ UNCHANGED driverVars

\* Lines 74-86 (root 71-79): the ONNX export, under the flag in the script.
CmExport ==
    /\ cm.pc = "export"
    /\ IF cm.generate_model
       THEN cm' = [cm EXCEPT
                     !.files = cm.files \cup {PathJoin(SysArgv(1), "credit_model.onnx")},
                     !.pc = "write_input"]
       ELSE cm' = [cm EXCEPT !.out = Append(cm.out, "Skipping model generation as per flag"),
                             !.pc = "write_input"]
    /\ UNCHANGED driverVars

\* A json.dump into a file of the output directory.
CmWrite(at, name, next) ==
    /\ cm.pc = at
    /\ cm' = [cm EXCEPT !.files = cm.files \cup {PathJoin(SysArgv(1), name)}, !.pc = next]
    /\ UNCHANGED driverVars

\* Lines 101-103, 117-119, 131-133.
CmWriteInput == CmWrite("write_input", "input.json", "write_debug")
CmWriteDebug == CmWrite("write_debug", "scaling_debug.json", "write_metadata")
CmWriteMetadata == CmWrite("write_metadata", "metadata.json", "finish")

\* Lines 135-138 (root 126): the closing message; the script ends, status 0.
CmFinish ==
    /\ cm.pc = "finish"
    /\ cm' = [cm EXCEPT !.exit = <<0>>, !.pc = "done"]
    /\ UNCHANGED driverVars

CmNext ==
    \/ CmArgc
    \/ CmLoads
    \/ CmValidate
    \/ CmMakedirs
    \/ CmScore
    \/ CmExport
    \/ CmWriteInput
    \/ CmWriteDebug
    \/ CmWriteMetadata
    \/ CmFinish

CmSpec == CmInit /\ [][CmNext]_vars

(* ------------------------------ C19 ------------------------------------ *)

\* The features argument is not valid JSON or not a list of exactly 4 elements.
BadFeatures(text) ==
    LET r == json_loads(text)
    IN  ~r.ok \/ r.val.t # "list" \/ Len(r.val.v) # 4

\* Arguments known to be bad without parsing them: a list of 4 takes 9
\* characters at least, and these longer ones are near misses.
KnownBad(text) ==
    \/ Len(text) < 9
    \/ text \in { <<"[", "1", ",", "1", ",", "1", ",", "1", ",", "1", "]">>,
                  <<"[", "1", ",", "1", ",", "1", ",", "1", ",", "]">>,
                  <<"[", "1", ",", "1", ",", "1", ",", "1", "]", "x">>,
                  <<"[", "[", "1", ",", "1", ",", "1", ",", "1", "]", "]">> }

\* C19: in both scripts, a run given a features argument that is not valid
\* JSON or not a list of exactly 4 elements never gets past validation: no
\* directory is created, no file is written, and it ends only by exiting 1.
C19_BadFeaturesNoSideEffects ==
    (cm.pc # "off" /\ Len(cm.argv) >= CmNeed(cm.script)
       /\ (BadFeatures(SysArgv(3)) \/ KnownBad(SysArgv(3)))) =>
        /\ cm.pc \in {"argc", "loads", "validate", "failed"}
        /\ cm.dirs = {}
        /\ cm.files = {}
        /\ cm.exit # <<>> => cm.exit = <<1>>
        /\ cm.pc = "failed" =>
             /\ cm.exit = <<1>>
             /\ cm.out \in {<<JsonErrorLine>>, <<ValueErrorLine>>}

C19_Witness ==
    /\ cm.pc = "failed"
    /\ cm.script = "script"
    /\ Len(cm.argv) = 5
    /\ SysArgv(3) = <<"\"", "1", "1", "1", "1", "\"">>
    /\ cm.out = <<ValueErrorLine>>
    /\ cm.exit = <<1>>
    /\ cm.dirs = {}

=============================================================================
